---------------------------- MODULE Spec2Model ----------------------------
(***************************************************************************)
(* Model of the MLSys Track A scheduler (Go).                              *)
(*                                                                         *)
(*   src/unnamed/part_000    the planner with the DP group partitioner      *)
(*   src/cmd/mlsys/main.go   the per-operation starter binary               *)
(*                                                                         *)
(* Go slices are modelled as TLA+ sequences; a Go index i is position i+1  *)
(* (operator At).  Operation and tensor indices keep their 0-based values. *)
(* Go maps used as sets (map[int]bool) are TLA+ sets.                      *)
(*                                                                         *)
(* Latencies are float64 in the source.  The model computes them in exact  *)
(* arithmetic and stores them multiplied by 10 * SlowMemoryBandwidth (the  *)
(* 10 clears the 0.9 reduction-split discount), so that every latency of   *)
(* one problem is an integer and the order of latencies is the source's.   *)
(***************************************************************************)
EXTENDS Integers, Sequences, FiniteSets, TLC

VARIABLES
    input,      \* the command line and the input file of a run of main
    pc,         \* where the run is
    problem,    \* main's variable problem
    solution,   \* main's variable solution
    outFile,    \* the output file: <<>> until written, then <<the solution>>
    exitCode,   \* the exit status, -1 while running
    args,       \* the arguments of a function applied on its own
    ret         \* its result: <<>> until it returns, then <<the result>>

vars == <<input, pc, problem, solution, outFile, exitCode, args, ret>>

----------------------------------------------------------------------------
(* Bounds of the model                                                     *)

\* largest number of operations of an enumerated problem
MaxOps == 5

\* largest number of operations of the problems given to the per-operation
\* starter and to the functions applied on their own
MaxSmallOps == 3

\* largest number of groups of an enumerated plan handed to validateSolution
MaxPlanGroups == 2

----------------------------------------------------------------------------
(* Program constants                                                       *)

\* buildBaselineSolution: chooseGroupsByDP(p, 4)
MaxGroupSize == 4

\* chooseGranularityForGroup: minI64(reduction, 16)
ReductionCap == 16

\* math.Inf(1) in the dp table
Inf == -1

----------------------------------------------------------------------------
(* Helpers of the Go runtime                                               *)

\* s[i] of a Go slice
At(s, i) == s[i + 1]

\* for i := 0; i < n; i++
Indices(n) == 0 .. (n - 1)

\* Go's integer division truncates toward zero
GoDiv(a, b) ==
    IF (a >= 0) = (b > 0) THEN a \div b ELSE -((-a) \div b)

minI64(a, b) == IF a < b THEN a ELSE b

maxI64(a, b) == IF a > b THEN a ELSE b

ceilDiv(a, b) == IF b <= 0 THEN 0 ELSE GoDiv(a + b - 1, b)

isMatMul(opType) == opType = "MatMul" \/ opType = "matmul"

\* the set of values a slice ranges over
Elems(s) == { s[i] : i \in 1 .. Len(s) }

RECURSIVE SumOver(_, _)
\* sum of f over the keys of a map used as a set
SumOver(S, f) ==
    IF S = {} THEN 0
    ELSE LET x == CHOOSE y \in S : TRUE
         IN  f[x] + SumOver(S \ {x}, f)

----------------------------------------------------------------------------
(* Working set and memory fit                                              *)

\* the map internalOutputs of a group
internalOutputsOf(p, ops) ==
    UNION { Elems(At(p.Outputs, At(ops, j))) : j \in Indices(Len(ops)) }

\* what one operation adds to boundaryIn
boundaryInOfOp(p, internal, op, w, h, k) ==
    LET ins == At(p.Inputs, op)
    IN  IF isMatMul(At(p.OpTypes, op))
        THEN (IF Len(ins) > 0 /\ At(ins, 0) \notin internal
                THEN h * maxI64(1, k) ELSE 0)
           + (IF Len(ins) > 1 /\ At(ins, 1) \notin internal
                THEN w * maxI64(1, k) ELSE 0)
        ELSE w * h * Cardinality({ i \in Indices(Len(ins)) : At(ins, i) \notin internal })

RECURSIVE boundaryInFrom(_, _, _, _, _, _, _)
boundaryInFrom(p, ops, internal, j, w, h, k) ==
    IF j >= Len(ops) THEN 0
    ELSE boundaryInOfOp(p, internal, At(ops, j), w, h, k)
         + boundaryInFrom(p, ops, internal, j + 1, w, h, k)

workingSetElementsForGroup(p, ops, w, h, k) ==
    IF Len(ops) = 0 THEN 0
    ELSE LET internal == internalOutputsOf(p, ops)
             lastOp == At(ops, Len(ops) - 1)
             boundaryOut == w * h * maxI64(1, Len(At(p.Outputs, lastOp)))
         IN  boundaryInFrom(p, ops, internal, 0, w, h, k) + boundaryOut

fitsFastMemoryGroup(p, ops, w, h, k) ==
    workingSetElementsForGroup(p, ops, w, h, k) <= p.FastMemoryCapacity

workingSetElementsForOp(p, op, w, h, k) ==
    IF isMatMul(At(p.OpTypes, op))
    THEN h * maxI64(1, k) + w * maxI64(1, k)
         + w * h * maxI64(1, Len(At(p.Outputs, op)))
    ELSE w * h * maxI64(1, Len(At(p.Inputs, op)))
         + w * h * maxI64(1, Len(At(p.Outputs, op)))

fitsFastMemory(p, op, w, h, k) ==
    workingSetElementsForOp(p, op, w, h, k) <= p.FastMemoryCapacity

----------------------------------------------------------------------------
(* Granularity selection                                                   *)

RECURSIVE largestPowerOfTwo(_, _)
\* for v*2 <= max { v *= 2 }
largestPowerOfTwo(v, max) ==
    IF v * 2 <= max THEN largestPowerOfTwo(v * 2, max) ELSE v

RECURSIVE halvings(_)
\* for v >= 1 { vals = append(vals, v); v /= 2 }
halvings(v) ==
    IF v >= 1 THEN <<v>> \o halvings(GoDiv(v, 2)) ELSE <<>>

descendingPowersOfTwo(max) ==
    LET vals == halvings(largestPowerOfTwo(1, max))
    IN  IF Len(vals) = 0 THEN <<1>> ELSE vals

\* some operation of ops has no output: reading p.Outputs[op][0] is out of
\* range and the run panics (the operators below are applied only otherwise)
firstOutputMissing(p, ops) ==
    \E j \in Indices(Len(ops)) : Len(At(p.Outputs, At(ops, j))) = 0

tensorArea(p, t) == At(p.Widths, t) * At(p.Heights, t)

RECURSIVE largestFirstOutput(_, _, _, _)
\* the loop that picks outTensor: the first of the largest first outputs
largestFirstOutput(p, ops, j, outTensor) ==
    IF j >= Len(ops) THEN outTensor
    ELSE LET t == At(At(p.Outputs, At(ops, j)), 0)
         IN  largestFirstOutput(p, ops, j + 1,
                 IF tensorArea(p, t) > tensorArea(p, outTensor) THEN t ELSE outTensor)

RECURSIVE reductionSplitFrom(_, _, _, _)
\* the innermost loop computing k
reductionSplitFrom(p, ops, j, k) ==
    IF j >= Len(ops) THEN k
    ELSE LET op == At(ops, j)
             ins == At(p.Inputs, op)
             reduction == At(p.Widths, At(ins, 0))
         IN  reductionSplitFrom(p, ops, j + 1,
                 IF isMatMul(At(p.OpTypes, op)) /\ Len(ins) > 0 /\ reduction > 0
                 THEN maxI64(k, minI64(reduction, ReductionCap))
                 ELSE k)

\* the candidate (w, h) pairs in the order the two nested loops visit them
candidatePairs(candidatesW, candidatesH) ==
    [ i \in 1 .. (Len(candidatesW) * Len(candidatesH)) |->
        << candidatesW[((i - 1) \div Len(candidatesH)) + 1],
           candidatesH[((i - 1) % Len(candidatesH)) + 1] >> ]

\* mutant: the candidate of larger area is kept without the memory-fit test
keepBetter_NoFitTest(p, ops, best, w, h, k) ==
    IF w * h > best[1] * best[2] THEN <<w, h, k>> ELSE best

\* mutant: a fitting candidate of the same area replaces the one kept
keepBetter_LastTie(p, ops, best, w, h, k) ==
    IF fitsFastMemoryGroup(p, ops, w, h, k) /\ w * h >= best[1] * best[2]
    THEN <<w, h, k>>
    ELSE best

\* the body of the nested loops: keep a fitting candidate of larger area
keepBetter(p, ops, best, w, h, k) ==
    IF fitsFastMemoryGroup(p, ops, w, h, k) /\ w * h > best[1] * best[2]
    THEN <<w, h, k>>
    ELSE best

RECURSIVE searchCandidates(_, _, _, _, _, _)
searchCandidates(p, ops, pairs, i, k, best) ==
    IF i > Len(pairs) THEN best
    ELSE searchCandidates(p, ops, pairs, i + 1, k,
             keepBetter(p, ops, best, pairs[i][1], pairs[i][2], k))

\* mutant: the caps are the tensor's sizes, not bounded by native_granularity
granularityCaps_NoNative(p, ops) ==
    LET outTensor == largestFirstOutput(p, ops, 0, At(At(p.Outputs, At(ops, 0)), 0))
        maxW == At(p.Widths, outTensor)
        maxH == At(p.Heights, outTensor)
    IN  << IF maxW < 1 THEN 1 ELSE maxW, IF maxH < 1 THEN 1 ELSE maxH >>

\* the caps maxW, maxH of the candidate widths and heights of a group
granularityCaps(p, ops) ==
    LET outTensor == largestFirstOutput(p, ops, 0, At(At(p.Outputs, At(ops, 0)), 0))
        maxW == minI64(p.NativeGranularity[1], At(p.Widths, outTensor))
        maxH == minI64(p.NativeGranularity[2], At(p.Heights, outTensor))
    IN  << IF maxW < 1 THEN 1 ELSE maxW, IF maxH < 1 THEN 1 ELSE maxH >>

chooseGranularityForGroup(p, ops) ==
    IF Len(ops) = 0 THEN <<1, 1, 1>>
    ELSE LET caps == granularityCaps(p, ops)
             pairs == candidatePairs(descendingPowersOfTwo(caps[1]),
                                     descendingPowersOfTwo(caps[2]))
         IN  searchCandidates(p, ops, pairs, 1,
                              reductionSplitFrom(p, ops, 0, 1), <<1, 1, 1>>)

----------------------------------------------------------------------------
(* Latency estimate                                                        *)

\* (boundaryInputs, boundaryOutputs) of a group
boundaryTensorsForGroup(p, ops) ==
    LET internalOutputs == internalOutputsOf(p, ops)
        consumedInside ==
            UNION { Elems(At(p.Inputs, At(ops, j))) : j \in Indices(Len(ops)) }
    IN  << consumedInside \ internalOutputs, internalOutputs \ consumedInside >>

tileElementsForTensor(p, tensor, w, h) ==
    LET tileW == minI64(maxI64(1, w), At(p.Widths, tensor))
        tileH == minI64(maxI64(1, h), At(p.Heights, tensor))
    IN  maxI64(1, tileW * tileH)

RECURSIVE splitKFrom(_, _, _, _, _)
\* the loop computing splitK
splitKFrom(p, ops, j, k, splitK) ==
    IF j >= Len(ops) THEN splitK
    ELSE LET op == At(ops, j)
             ins == At(p.Inputs, op)
             reduction == At(p.Widths, At(ins, 0))
         IN  splitKFrom(p, ops, j + 1, k,
                 IF isMatMul(At(p.OpTypes, op)) /\ Len(ins) > 0
                 THEN maxI64(splitK, ceilDiv(reduction, maxI64(1, k)))
                 ELSE splitK)

RECURSIVE computePerStepFrom(_, _, _)
computePerStepFrom(p, ops, j) ==
    IF j >= Len(ops) THEN 0
    ELSE At(p.BaseCosts, At(ops, j)) + computePerStepFrom(p, ops, j + 1)

\* the latency of a group, times 10 * SlowMemoryBandwidth
estimateSubgraphLatencyForGroup(p, ops, g) ==
    IF Len(ops) = 0 THEN 0
    ELSE LET w == g[1]
             h == g[2]
             k == g[3]
             outTensor == At(At(p.Outputs, At(ops, Len(ops) - 1)), 0)
             tilesW == ceilDiv(At(p.Widths, outTensor), maxI64(1, w))
             tilesH == ceilDiv(At(p.Heights, outTensor), maxI64(1, h))
             splitK == splitKFrom(p, ops, 0, k, 1)
             nSteps == maxI64(1, tilesW * tilesH * splitK)
             computePerStep == computePerStepFrom(p, ops, 0)
             boundary == boundaryTensorsForGroup(p, ops)
             tile == [ t \in boundary[1] \cup boundary[2] |->
                         tileElementsForTensor(p, t, w, h) ]
             boundaryElements == SumOver(boundary[1], tile) + SumOver(boundary[2], tile)
             memPerStep10 == maxI64(1, boundaryElements) * (IF k > 1 THEN 9 ELSE 10)
             computePerStep10 == 10 * p.SlowMemoryBandwidth * computePerStep
         IN  nSteps * maxI64(computePerStep10, memPerStep10)

----------------------------------------------------------------------------
(* Group partitioner                                                       *)

makeContiguousOps(start, end) == [ i \in 1 .. (end - start) |-> start + i - 1 ]

\* dp[start] + cost, where dp[start] may be +Inf
plusInf(x, cost) == IF x = Inf THEN Inf ELSE x + cost

\* a < b for values that may be +Inf
lessInf(a, b) == a # Inf /\ (b = Inf \/ a < b)

\* the cost of the contiguous group [start, end) in the dp
groupCost(p, start, end) ==
    LET group == makeContiguousOps(start, end)
    IN  estimateSubgraphLatencyForGroup(p, group, chooseGranularityForGroup(p, group))

RECURSIVE relaxSizes_OneShort(_, _, _, _, _)
\* mutant: the loop over size stops one short, size < maxGroupSize
relaxSizes_OneShort(p, maxGroupSize, end, size, t) ==
    IF size >= maxGroupSize \/ end - size < 0 THEN t
    ELSE LET start == end - size
             cand == plusInf(At(t[1], start), groupCost(p, start, end))
         IN  relaxSizes_OneShort(p, maxGroupSize, end, size + 1,
                 IF lessInf(cand, At(t[1], end))
                 THEN << [t[1] EXCEPT ![end + 1] = cand],
                         [t[2] EXCEPT ![end + 1] = start] >>
                 ELSE t)

RECURSIVE relaxSizes(_, _, _, _, _)
\* the inner loop over size for one end; t is <<dp, prev>>
relaxSizes(p, maxGroupSize, end, size, t) ==
    IF size > maxGroupSize \/ end - size < 0 THEN t
    ELSE LET start == end - size
             cand == plusInf(At(t[1], start), groupCost(p, start, end))
         IN  relaxSizes(p, maxGroupSize, end, size + 1,
                 IF lessInf(cand, At(t[1], end))
                 THEN << [t[1] EXCEPT ![end + 1] = cand],
                         [t[2] EXCEPT ![end + 1] = start] >>
                 ELSE t)

RECURSIVE relaxEnds(_, _, _, _)
\* the outer loop over end
relaxEnds(p, maxGroupSize, end, t) ==
    IF end > Len(p.OpTypes) THEN t
    ELSE relaxEnds(p, maxGroupSize, end + 1, relaxSizes(p, maxGroupSize, end, 1, t))

\* <<dp, prev>> after the two nested loops
dpTables(p, maxGroupSize) ==
    LET n == Len(p.OpTypes)
    IN  relaxEnds(p, maxGroupSize, 1,
            << [ i \in 1 .. (n + 1) |-> IF i = 1 THEN 0 ELSE Inf ],
               [ i \in 1 .. (n + 1) |-> -1 ] >>)

RECURSIVE walkBack(_, _)
\* for at := n; at > 0; at = prev[at]: the groups, last first
walkBack(prev, at) ==
    IF at <= 0 \/ At(prev, at) < 0 THEN <<>>
    ELSE <<makeContiguousOps(At(prev, at), at)>> \o walkBack(prev, At(prev, at))

reverseOf(s) == [ i \in 1 .. Len(s) |-> s[Len(s) + 1 - i] ]

\* mutant: the walked-back groups are returned without being reversed
chooseGroupsByDP_NotReversed(p, maxGroupSize) ==
    LET n == Len(p.OpTypes)
        prev == dpTables(p, maxGroupSize)[2]
    IN  IF At(prev, n) = -1
        THEN [ i \in 1 .. n |-> <<i - 1>> ]
        ELSE walkBack(prev, n)

chooseGroupsByDP(p, maxGroupSize) ==
    LET n == Len(p.OpTypes)
        prev == dpTables(p, maxGroupSize)[2]
    IN  IF At(prev, n) = -1
        THEN [ i \in 1 .. n |-> <<i - 1>> ]
        ELSE reverseOf(walkBack(prev, n))

----------------------------------------------------------------------------
(* Retention planner                                                       *)

RECURSIVE flattenOutputs(_, _, _)
\* the outputs of the operations of a group, in the order the loops visit them
flattenOutputs(p, ops, j) ==
    IF j >= Len(ops) THEN <<>>
    ELSE At(p.Outputs, At(ops, j)) \o flattenOutputs(p, ops, j + 1)

RECURSIVE retainFrom_NoSeen(_, _, _, _)
\* mutant: the seen map is not consulted
retainFrom_NoSeen(outs, i, nextInputs, retain) ==
    IF i > Len(outs) THEN retain
    ELSE retainFrom_NoSeen(outs, i + 1, nextInputs,
             IF outs[i] \in nextInputs THEN Append(retain, outs[i]) ELSE retain)

RECURSIVE retainFrom(_, _, _, _)
\* append t when nextInputs[t] && !seen[t]
retainFrom(outs, i, nextInputs, retain) ==
    IF i > Len(outs) THEN retain
    ELSE retainFrom(outs, i + 1, nextInputs,
             IF outs[i] \in nextInputs /\ outs[i] \notin Elems(retain)
             THEN Append(retain, outs[i])
             ELSE retain)

chooseRetainedTensors(p, groups, idx) ==
    IF idx < 0 \/ idx >= Len(groups) - 1 THEN <<>>
    ELSE LET current == At(groups, idx)
             next == At(groups, idx + 1)
         IN  IF Len(current) = 0 \/ Len(next) = 0 THEN <<>>
             ELSE LET nextInputs ==
                        UNION { Elems(At(p.Inputs, At(next, j))) : j \in Indices(Len(next)) }
                  IN  retainFrom(flattenOutputs(p, current, 0), 1, nextInputs, <<>>)

----------------------------------------------------------------------------
(* Plan assembly, src/unnamed/part_000                                      *)

buildBaselineSolution(p) ==
    LET groups == chooseGroupsByDP(p, MaxGroupSize)
        gran == [ i \in 1 .. Len(groups) |-> chooseGranularityForGroup(p, groups[i]) ]
    IN  [ Subgraphs |-> groups,
          Granularities |-> gran,
          TensorsToRetain |->
              [ i \in 1 .. Len(groups) |-> chooseRetainedTensors(p, groups, i - 1) ],
          TraversalOrders |-> [ i \in 1 .. Len(groups) |-> "nil" ],
          SubgraphLatencies |->
              [ i \in 1 .. Len(groups) |->
                  estimateSubgraphLatencyForGroup(p, groups[i], gran[i]) ] ]

----------------------------------------------------------------------------
(* Validation                                                              *)

tensorIndexOK(p, t) == t >= 0 /\ t < Len(p.Widths)

validateProblem(p) ==
    LET nOps == Len(p.OpTypes)
    IN  IF nOps = 0 THEN "problem has no operations"
        ELSE IF Len(p.Inputs) # nOps \/ Len(p.Outputs) # nOps \/ Len(p.BaseCosts) # nOps
             THEN "inputs/outputs/base_costs/op_types length mismatch"
        ELSE IF Len(p.Widths) # Len(p.Heights) THEN "widths/heights length mismatch"
        ELSE IF p.SlowMemoryBandwidth <= 0 THEN "slow_memory_bandwidth must be > 0"
        ELSE IF p.FastMemoryCapacity <= 0 THEN "fast_memory_capacity must be > 0"
        ELSE IF p.NativeGranularity[1] <= 0 \/ p.NativeGranularity[2] <= 0
             THEN "native_granularity entries must be > 0"
        ELSE IF \E op \in Indices(nOps) :
                    \/ \E t \in Elems(At(p.Inputs, op)) : ~tensorIndexOK(p, t)
                    \/ \E t \in Elems(At(p.Outputs, op)) : ~tensorIndexOK(p, t)
             THEN "tensor index out of range"
        ELSE "ok"

\* covered[op] after the loop over the subgraphs
coveredCount(s, op) ==
    Cardinality(UNION { { <<i, j>> : j \in { x \in 1 .. Len(s.Subgraphs[i]) :
                                                s.Subgraphs[i][x] = op } } :
                        i \in 1 .. Len(s.Subgraphs) })

\* the checks of the loop body for subgraph i
validateSubgraph(p, s, i) ==
    LET ops == At(s.Subgraphs, i)
        g == At(s.Granularities, i)
    IN  IF Len(ops) = 0 THEN "subgraph has no ops"
        ELSE IF g[1] <= 0 \/ g[2] <= 0 \/ g[3] <= 0 THEN "subgraph has invalid granularity"
        ELSE IF At(s.SubgraphLatencies, i) < 0 THEN "subgraph has negative latency"
        ELSE IF \E op \in Elems(ops) : op < 0 \/ op >= Len(p.OpTypes)
             THEN "subgraph references invalid op index"
        ELSE IF ~fitsFastMemoryGroup(p, ops, g[1], g[2], g[3])
             THEN "subgraph violates fast memory capacity"
        ELSE IF \E t \in Elems(At(s.TensorsToRetain, i)) : ~tensorIndexOK(p, t)
             THEN "subgraph retains invalid tensor"
        ELSE "ok"

RECURSIVE validateSubgraphsFrom(_, _, _)
\* the loop over the subgraphs: the first error, or ok
validateSubgraphsFrom(p, s, i) ==
    IF i >= Len(s.Subgraphs) THEN "ok"
    ELSE LET r == validateSubgraph(p, s, i)
         IN  IF r # "ok" THEN r ELSE validateSubgraphsFrom(p, s, i + 1)

\* mutant: only an operation that is in no group is reported
validateSolution_MissingOnly(p, s) ==
    LET n == Len(s.Subgraphs)
    IN  IF n = 0 THEN "solution has no subgraphs"
        ELSE IF Len(s.Granularities) # n \/ Len(s.TensorsToRetain) # n
                \/ Len(s.TraversalOrders) # n \/ Len(s.SubgraphLatencies) # n
             THEN "solution parallel list length mismatch"
        ELSE LET r == validateSubgraphsFrom(p, s, 0)
             IN  IF r # "ok" THEN r
                 ELSE IF \E op \in Indices(Len(p.OpTypes)) : coveredCount(s, op) = 0
                      THEN "operation must be scheduled exactly once"
                      ELSE "ok"

validateSolution(p, s) ==
    LET n == Len(s.Subgraphs)
    IN  IF n = 0 THEN "solution has no subgraphs"
        ELSE IF Len(s.Granularities) # n \/ Len(s.TensorsToRetain) # n
                \/ Len(s.TraversalOrders) # n \/ Len(s.SubgraphLatencies) # n
             THEN "solution parallel list length mismatch"
        ELSE LET r == validateSubgraphsFrom(p, s, 0)
             IN  IF r # "ok" THEN r
                 ELSE IF \E op \in Indices(Len(p.OpTypes)) : coveredCount(s, op) # 1
                      THEN "operation must be scheduled exactly once"
                      ELSE "ok"

----------------------------------------------------------------------------
(* The per-operation starter, src/cmd/mlsys/main.go                         *)

keepBetterForOp(p, op, best, w, h, k) ==
    IF fitsFastMemory(p, op, w, h, k) /\ w * h > best[1] * best[2]
    THEN <<w, h, k>>
    ELSE best

RECURSIVE searchCandidatesForOp(_, _, _, _, _, _)
searchCandidatesForOp(p, op, pairs, i, k, best) ==
    IF i > Len(pairs) THEN best
    ELSE searchCandidatesForOp(p, op, pairs, i + 1, k,
             keepBetterForOp(p, op, best, pairs[i][1], pairs[i][2], k))

chooseGranularityForOp(p, op) ==
    LET outTensor == At(At(p.Outputs, op), 0)
        maxW == minI64(p.NativeGranularity[1], At(p.Widths, outTensor))
        maxH == minI64(p.NativeGranularity[2], At(p.Heights, outTensor))
        pairs == candidatePairs(descendingPowersOfTwo(IF maxW < 1 THEN 1 ELSE maxW),
                                descendingPowersOfTwo(IF maxH < 1 THEN 1 ELSE maxH))
        ins == At(p.Inputs, op)
        reduction == At(p.Widths, At(ins, 0))
        k == IF isMatMul(At(p.OpTypes, op)) /\ Len(ins) > 0 /\ reduction > 0
             THEN minI64(reduction, ReductionCap)
             ELSE 1
    IN  searchCandidatesForOp(p, op, pairs, 1, k, <<1, 1, 1>>)

\* the latency of one operation, times 10 * SlowMemoryBandwidth
estimateSubgraphLatencySingleOp(p, op, g) ==
    LET w == g[1]
        h == g[2]
        k == g[3]
        outTensor == At(At(p.Outputs, op), 0)
        tilesW == ceilDiv(At(p.Widths, outTensor), w)
        tilesH == ceilDiv(At(p.Heights, outTensor), h)
        ins == At(p.Inputs, op)
        splitK == IF isMatMul(At(p.OpTypes, op)) /\ Len(ins) > 0
                  THEN ceilDiv(At(p.Widths, At(ins, 0)), maxI64(1, k))
                  ELSE 1
        nSteps == maxI64(1, tilesW * tilesH * splitK)
        computePerStep10 == 10 * p.SlowMemoryBandwidth * At(p.BaseCosts, op)
        memPerStep10 == 10 * workingSetElementsForOp(p, op, w, h, k)
    IN  nSteps * maxI64(computePerStep10, memPerStep10)

buildBaselineSolutionPerOp(p) ==
    LET nOps == Len(p.OpTypes)
        gran == [ i \in 1 .. nOps |-> chooseGranularityForOp(p, i - 1) ]
    IN  [ Subgraphs |-> [ i \in 1 .. nOps |-> <<i - 1>> ],
          Granularities |-> gran,
          TensorsToRetain |-> [ i \in 1 .. nOps |-> <<>> ],
          TraversalOrders |-> [ i \in 1 .. nOps |-> "nil" ],
          SubgraphLatencies |->
              [ i \in 1 .. nOps |-> estimateSubgraphLatencySingleOp(p, i - 1, gran[i]) ] ]

----------------------------------------------------------------------------
(* The enumerated inputs                                                   *)

\* the zero value InputProblem{}
NoProblem ==
    [ Widths |-> <<>>, Heights |-> <<>>, Inputs |-> <<>>, Outputs |-> <<>>,
      BaseCosts |-> <<>>, OpTypes |-> <<>>, FastMemoryCapacity |-> 0,
      SlowMemoryBandwidth |-> 0, NativeGranularity |-> <<0, 0>> ]

\* the zero value OutputSolution{}
NoSolution ==
    [ Subgraphs |-> <<>>, Granularities |-> <<>>, TensorsToRetain |-> <<>>,
      TraversalOrders |-> <<>>, SubgraphLatencies |-> <<>> ]

\* Operation i of an n-operation problem over the tensors 0 .. n+2: tensor i+1
\* is the output of operation i, tensors n+1 and n+2 are graph inputs.
\*   "chain"   an elementwise operation on the previous operation's output
\*   "matmul"  a matrix product of the previous output with tensor n+1
\*   "skip"    an operation on the output of the operation before the
\*             previous one and tensor n+2, listing its output twice
OpShapes == { "chain", "matmul", "skip" }

shapeOp(shape, i, n) ==
    CASE shape = "chain" ->
             [ type |-> "Add", ins |-> <<i>>, outs |-> <<i + 1>>, cost |-> 1 ]
      [] shape = "matmul" ->
             [ type |-> "MatMul", ins |-> <<i, n + 1>>, outs |-> <<i + 1>>, cost |-> 2 ]
      [] shape = "skip" ->
             [ type |-> "Concat", ins |-> <<maxI64(i - 1, 0), n + 2>>,
               outs |-> <<i + 1, i + 1>>, cost |-> 0 ]

\* tensor sizes, repeated cyclically over the tensor indices
DimWidths == <<4, 2, 8, 1, 4>>
DimHeights == <<2, 4, 1, 8, 4>>

\* the machines of the enumerated problems: a capacity only unit tiles fit,
\* two capacities that admit some of the candidate tiles, and a roomy one
Machines ==
    { [ cap |-> 3, bw |-> 8, native |-> <<2, 8>> ],
      [ cap |-> 12, bw |-> 1, native |-> <<4, 4>> ],
      [ cap |-> 12, bw |-> 8, native |-> <<4, 2>> ],
      [ cap |-> 40, bw |-> 1, native |-> <<4, 4>> ] }

problemOf(shapes, cap, bw, native) ==
    LET n == Len(shapes)
        ops == [ i \in 1 .. n |-> shapeOp(shapes[i], i - 1, n) ]
    IN  [ Widths |-> [ t \in 1 .. (n + 3) |-> DimWidths[((t - 1) % Len(DimWidths)) + 1] ],
          Heights |-> [ t \in 1 .. (n + 3) |-> DimHeights[((t - 1) % Len(DimHeights)) + 1] ],
          Inputs |-> [ i \in 1 .. n |-> ops[i].ins ],
          Outputs |-> [ i \in 1 .. n |-> ops[i].outs ],
          BaseCosts |-> [ i \in 1 .. n |-> ops[i].cost ],
          OpTypes |-> [ i \in 1 .. n |-> ops[i].type ],
          FastMemoryCapacity |-> cap,
          SlowMemoryBandwidth |-> bw,
          NativeGranularity |-> native ]

familyProblems(maxOps) ==
    { problemOf(sh, m.cap, m.bw, m.native) :
        sh \in UNION { [ 1 .. n -> OpShapes ] : n \in 1 .. maxOps }, m \in Machines }

\* a two-operation problem to vary: a source operation feeding an elementwise one
BaseProblem ==
    [ Widths |-> <<4, 4, 0>>, Heights |-> <<4, 2, 3>>,
      Inputs |-> << <<>>, <<0>> >>, Outputs |-> << <<0>>, <<1>> >>,
      BaseCosts |-> <<1, 3>>, OpTypes |-> <<"Const", "Relu">>,
      FastMemoryCapacity |-> 8, SlowMemoryBandwidth |-> 2,
      NativeGranularity |-> <<4, 4>> ]

\* problems with an operation that has no output
NoOutputProblems ==
    { [BaseProblem EXCEPT !.Outputs = << <<0>>, <<>> >>],
      [BaseProblem EXCEPT !.Outputs = << <<>>, <<1>> >>] }

\* further accepted problems: lower-case matmul on a zero-width operand, one
\* operand only, a capacity no operation fits
OtherProblems ==
    { BaseProblem,
      [BaseProblem EXCEPT !.OpTypes = <<"Const", "matmul">>, !.Inputs = << <<>>, <<2, 0>> >>],
      [BaseProblem EXCEPT !.OpTypes = <<"Const", "MatMul">>],
      [BaseProblem EXCEPT !.FastMemoryCapacity = 1] }

\* problems validateProblem rejects
RejectedProblems ==
    { NoProblem,
      [BaseProblem EXCEPT !.Inputs = << <<0>> >>],
      [BaseProblem EXCEPT !.BaseCosts = <<1>>],
      [BaseProblem EXCEPT !.Heights = <<4, 2>>],
      [BaseProblem EXCEPT !.SlowMemoryBandwidth = 0],
      [BaseProblem EXCEPT !.FastMemoryCapacity = 0],
      [BaseProblem EXCEPT !.NativeGranularity = <<4, 0>>],
      [BaseProblem EXCEPT !.Inputs = << <<>>, <<3>> >>],
      [BaseProblem EXCEPT !.Outputs = << <<0>>, <<-1>> >>] }

Problems ==
    familyProblems(MaxOps) \cup OtherProblems \cup NoOutputProblems \cup RejectedProblems

StarterProblems ==
    familyProblems(MaxSmallOps) \cup OtherProblems \cup NoOutputProblems
    \cup RejectedProblems

\* a run's command line and input file
inputsOf(problems) ==
    { [ argc |-> 3, readable |-> TRUE, problem |-> q ] : q \in problems }
    \cup { [ argc |-> 3, readable |-> FALSE, problem |-> NoProblem ],
           [ argc |-> 2, readable |-> TRUE, problem |-> BaseProblem ] }

\* the plans handed to validateSolution on BaseProblem (InitValidate): every
\* sequence of groups, each sound or with one defect, and the sound ones with
\* one of the parallel lists a group short
PlanGroups == { <<>>, <<0>>, <<1>>, <<0, 1>>, <<0, 0>>, <<2>>, <<-1>> }

PlanDefects ==
    { "none", "zero height", "zero split", "negative width", "too large",
      "negative latency", "retain past end", "retain negative" }

ShortLists == { "granularities", "tensors_to_retain", "traversal_orders", "subgraph_latencies" }

planGranularity(defect) ==
    CASE defect = "zero height" -> <<1, 0, 1>>
      [] defect = "zero split" -> <<1, 1, 0>>
      [] defect = "negative width" -> <<-1, 1, 1>>
      [] defect = "too large" -> <<4, 4, 1>>
      [] OTHER -> <<1, 1, 1>>

planRetain(defect) ==
    CASE defect = "retain past end" -> <<0, 3>>
      [] defect = "retain negative" -> <<-1>>
      [] OTHER -> <<0>>

dropLast(list) == SubSeq(list, 1, Len(list) - 1)

\* entries[i] is <<group, defect>>
planOf(entries, short) ==
    LET full == [ Subgraphs |-> [ i \in 1 .. Len(entries) |-> entries[i][1] ],
                  Granularities |->
                      [ i \in 1 .. Len(entries) |-> planGranularity(entries[i][2]) ],
                  TensorsToRetain |->
                      [ i \in 1 .. Len(entries) |-> planRetain(entries[i][2]) ],
                  TraversalOrders |-> [ i \in 1 .. Len(entries) |-> "nil" ],
                  SubgraphLatencies |->
                      [ i \in 1 .. Len(entries) |->
                          IF entries[i][2] = "negative latency" THEN -1 ELSE 5 ] ]
    IN  CASE short = "granularities" ->
                 [full EXCEPT !.Granularities = dropLast(full.Granularities)]
          [] short = "tensors_to_retain" ->
                 [full EXCEPT !.TensorsToRetain = dropLast(full.TensorsToRetain)]
          [] short = "traversal_orders" ->
                 [full EXCEPT !.TraversalOrders = dropLast(full.TraversalOrders)]
          [] short = "subgraph_latencies" ->
                 [full EXCEPT !.SubgraphLatencies = dropLast(full.SubgraphLatencies)]
          [] OTHER -> full

\* the problems chooseGranularityForGroup is applied to
GranularityCapacities == { 1, 2, 3, 6, 9, 12, 20, 40, 100 }
GranularityNatives == { <<1, 1>>, <<4, 4>>, <<2, 8>>, <<8, 2>>, <<3, 5>> }

GranularityProblems ==
    { problemOf(sh, cap, 1, native) :
        sh \in UNION { [ 1 .. n -> OpShapes ] : n \in 1 .. MaxSmallOps },
        cap \in GranularityCapacities, native \in GranularityNatives }
    \cup OtherProblems

\* the contiguous groups chooseGroupsByDP forms on a problem
contiguousGroups(p) ==
    { makeContiguousOps(a, b) :
        <<a, b>> \in { <<x, y>> \in Indices(Len(p.OpTypes)) \X (1 .. Len(p.OpTypes)) :
                        x < y /\ y - x <= MaxGroupSize } }

\* the operations and tiles the working-set counts are compared on
TileSides == { 1, 2, 4 }
Splits == { 1, 4 }

WorkingSetProblems == familyProblems(MaxSmallOps) \cup OtherProblems

----------------------------------------------------------------------------
(* main                                                                    *)

\* the state a run starts in
startOn(inputs) ==
    /\ input \in inputs
    /\ pc = "start"
    /\ problem = NoProblem
    /\ solution = NoSolution
    /\ outFile = <<>>
    /\ exitCode = -1
    /\ args = <<>>
    /\ ret = <<>>

\* fatal(msg): os.Exit(1)
fatal ==
    /\ pc' = "fatal"
    /\ exitCode' = 1

\* an index out of range: the Go runtime panics, exit status 2
panic ==
    /\ pc' = "panic"
    /\ exitCode' = 2

\* if len(os.Args) != 3 { fatal(usage) }
Usage ==
    /\ pc = "start"
    /\ input.argc # 3
    /\ fatal
    /\ UNCHANGED <<input, problem, solution, outFile, args, ret>>

\* problem, err := readProblem(inPath)
ReadProblem ==
    /\ pc = "start"
    /\ input.argc = 3
    /\ IF input.readable
       THEN /\ problem' = input.problem
            /\ pc' = "read"
            /\ UNCHANGED exitCode
       ELSE /\ fatal
            /\ UNCHANGED problem
    /\ UNCHANGED <<input, solution, outFile, args, ret>>

\* if err := validateProblem(problem); err != nil { fatal(...) }
ValidateProblem ==
    /\ pc = "read"
    /\ IF validateProblem(problem) = "ok"
       THEN /\ pc' = "validated"
            /\ UNCHANGED exitCode
       ELSE fatal
    /\ UNCHANGED <<input, problem, solution, outFile, args, ret>>

\* part_000: solution := buildBaselineSolution(problem)
Build ==
    /\ pc = "validated"
    /\ IF firstOutputMissing(problem, makeContiguousOps(0, Len(problem.OpTypes)))
       THEN /\ panic
            /\ UNCHANGED solution
       ELSE /\ solution' = buildBaselineSolution(problem)
            /\ pc' = "built"
            /\ UNCHANGED exitCode
    /\ UNCHANGED <<input, problem, outFile, args, ret>>

\* part_000: if err := validateSolution(problem, solution); err != nil { fatal(...) }
ValidateSolution ==
    /\ pc = "built"
    /\ IF validateSolution(problem, solution) = "ok"
       THEN /\ pc' = "checked"
            /\ UNCHANGED exitCode
       ELSE fatal
    /\ UNCHANGED <<input, problem, solution, outFile, args, ret>>

\* writeSolution(outPath, solution) succeeds and main returns
WriteSolution ==
    /\ pc \in { "checked", "logged" }
    /\ outFile' = <<solution>>
    /\ pc' = "done"
    /\ exitCode' = 0
    /\ UNCHANGED <<input, problem, solution, args, ret>>

\* writeSolution returns an error (os.WriteFile fails)
WriteSolutionError ==
    /\ pc \in { "checked", "logged" }
    /\ fatal
    /\ UNCHANGED <<input, problem, solution, outFile, args, ret>>

\* cmd/mlsys: solution := buildBaselineSolution(problem), one group per operation
BuildPerOp ==
    /\ pc = "validated"
    /\ IF firstOutputMissing(problem, makeContiguousOps(0, Len(problem.OpTypes)))
       THEN /\ panic
            /\ UNCHANGED solution
       ELSE /\ solution' = buildBaselineSolutionPerOp(problem)
            /\ pc' = "built"
            /\ UNCHANGED exitCode
    /\ UNCHANGED <<input, problem, outFile, args, ret>>

\* cmd/mlsys: logSolutionLatency(solution) writes to stderr only
LogSolutionLatency ==
    /\ pc = "built"
    /\ pc' = "logged"
    /\ UNCHANGED <<input, problem, solution, outFile, exitCode, args, ret>>

----------------------------------------------------------------------------
(* Functions applied on their own                                          *)

\* the state before a function is applied to args (and problem, solution)
callOn(p, s, a) ==
    /\ input = [ argc |-> 0, readable |-> FALSE, problem |-> NoProblem ]
    /\ pc = "call"
    /\ problem = p
    /\ solution = s
    /\ outFile = <<>>
    /\ exitCode = -1
    /\ args = a
    /\ ret = <<>>

returnWith(value) ==
    /\ pc = "call"
    /\ pc' = "return"
    /\ ret' = <<value>>
    /\ UNCHANGED <<input, problem, solution, outFile, exitCode, args>>

\* err := validateSolution(problem, solution)
CallValidateSolution == returnWith(validateSolution(problem, solution))

\* g := chooseGranularityForGroup(problem, ops)
CallChooseGranularityForGroup == returnWith(chooseGranularityForGroup(problem, args))

\* the two working-set counts and the two memory-fit tests of one operation
CallWorkingSet ==
    returnWith([ forOp |-> workingSetElementsForOp(problem, args.op, args.w, args.h, args.k),
                 forGroup |->
                     workingSetElementsForGroup(problem, <<args.op>>, args.w, args.h, args.k),
                 fitsOp |-> fitsFastMemory(problem, args.op, args.w, args.h, args.k),
                 fitsGroup |->
                     fitsFastMemoryGroup(problem, <<args.op>>, args.w, args.h, args.k) ])

InitValidate ==
    \E n \in 0 .. MaxPlanGroups :
        \E entries \in [ 1 .. n -> PlanGroups \X PlanDefects ] :
            \E short \in { "none" } \cup ShortLists :
                /\ short # "none" => (n >= 1 /\ \A i \in 1 .. n : entries[i][2] = "none")
                /\ callOn(BaseProblem, planOf(entries, short), <<>>)

NextValidate == CallValidateSolution

SpecValidate == InitValidate /\ [][NextValidate]_vars

InitGranularity ==
    \E p \in GranularityProblems : \E ops \in contiguousGroups(p) : callOn(p, NoSolution, ops)

NextGranularity == CallChooseGranularityForGroup

SpecGranularity == InitGranularity /\ [][NextGranularity]_vars

InitWorkingSet ==
    \E p \in WorkingSetProblems :
        \E op \in Indices(Len(p.OpTypes)), w \in TileSides, h \in TileSides, k \in Splits :
            callOn(p, NoSolution, [ op |-> op, w |-> w, h |-> h, k |-> k ])

NextWorkingSet == CallWorkingSet

SpecWorkingSet == InitWorkingSet /\ [][NextWorkingSet]_vars

(* main of src/unnamed/part_000 *)
Init == startOn(inputsOf(Problems))

Next ==
    \/ Usage
    \/ ReadProblem
    \/ ValidateProblem
    \/ Build
    \/ ValidateSolution
    \/ WriteSolution
    \/ WriteSolutionError

Spec == Init /\ [][Next]_vars

(* main of src/cmd/mlsys/main.go *)
InitStarter == startOn(inputsOf(StarterProblems))

NextStarter ==
    \/ Usage
    \/ ReadProblem
    \/ ValidateProblem
    \/ BuildPerOp
    \/ LogSolutionLatency
    \/ WriteSolution
    \/ WriteSolutionError

SpecStarter == InitStarter /\ [][NextStarter]_vars

----------------------------------------------------------------------------
(* Claims about the plan built by main of src/unnamed/part_000              *)

RECURSIVE concatAll(_)
\* the groups of a plan, concatenated in order
concatAll(groups) ==
    IF Len(groups) = 0 THEN <<>> ELSE Head(groups) \o concatAll(Tail(groups))

RECURSIVE sumSeq(_)
sumSeq(s) == IF Len(s) = 0 THEN 0 ELSE Head(s) + sumSeq(Tail(s))

\* C1: for an accepted problem of n operations the groups chosen by
\* chooseGroupsByDP(p, 4), concatenated in order, are the sequence 0,1,...,n-1,
\* and every group holds between 1 and 4 operations; so every group is a
\* contiguous ascending run and every operation is in exactly one group.
C1_GroupsPartitionOps ==
    pc = "built" =>
        /\ concatAll(solution.Subgraphs) = makeContiguousOps(0, Len(problem.OpTypes))
        /\ \A i \in 1 .. Len(solution.Subgraphs) :
               Len(solution.Subgraphs[i]) \in 1 .. MaxGroupSize

\* a plan of more operations than one group may hold, with a full group and
\* at least three groups
C1_Witness ==
    /\ pc = "built"
    /\ Len(problem.OpTypes) > MaxGroupSize
    /\ Len(solution.Subgraphs) >= 3
    /\ \E i \in 1 .. Len(solution.Subgraphs) : Len(solution.Subgraphs[i]) >= 2

\* the memory-fit predicate of group i of a plan at its assigned granularity
fitsAssigned(p, s, i) ==
    fitsFastMemoryGroup(p, s.Subgraphs[i],
                        s.Granularities[i][1], s.Granularities[i][2], s.Granularities[i][3])

\* C2, as claimed: every group of the built plan fits fast memory at its
\* assigned granularity.
C2_EveryGroupFits ==
    pc = "built" => \A i \in 1 .. Len(solution.Subgraphs) : fitsAssigned(problem, solution, i)

\* C2, amended: a group of the built plan fits fast memory at its assigned
\* granularity exactly when it fits at (1,1,1); a group that does not fit at
\* (1,1,1) is assigned (1,1,1).
C2_FitsWhenUnitTileFits ==
    pc = "built" =>
        \A i \in 1 .. Len(solution.Subgraphs) :
            IF fitsFastMemoryGroup(problem, solution.Subgraphs[i], 1, 1, 1)
            THEN fitsAssigned(problem, solution, i)
            ELSE /\ solution.Granularities[i] = <<1, 1, 1>>
                 /\ ~fitsAssigned(problem, solution, i)

\* a plan with a group tiled larger than (1,1) and a group that fits only
\* because the unit tile does
C2_Witness ==
    /\ pc = "built"
    /\ \E i \in 1 .. Len(solution.Subgraphs) :
           /\ solution.Granularities[i][1] * solution.Granularities[i][2] > 1
           /\ fitsAssigned(problem, solution, i)
    /\ \E i \in 1 .. Len(solution.Subgraphs) :
           /\ solution.Granularities[i] = <<1, 1, 1>>
           /\ fitsAssigned(problem, solution, i)

RECURSIVE contiguousPartitions(_, _)
\* every split of the operations start .. n-1 into contiguous groups of 1 to
\* MaxGroupSize operations, as sequences of <<start, end>> pairs
contiguousPartitions(start, n) ==
    IF start = n THEN { <<>> }
    ELSE UNION { { <<<<start, start + size>>>> \o rest :
                     rest \in contiguousPartitions(start + size, n) } :
                 size \in 1 .. minI64(MaxGroupSize, n - start) }

RECURSIVE costRow(_, _, _)
\* the estimates of the groups [start, end), [start, end+1), ... of at most
\* MaxGroupSize operations, each at its selected granularity
costRow(p, start, end) ==
    IF end > Len(p.OpTypes) \/ end - start > MaxGroupSize THEN <<>>
    ELSE <<groupCost(p, start, end)>> \o costRow(p, start, end + 1)

RECURSIVE costRows(_, _)
\* costRows(p, 0)[start + 1][size]: the estimate of the group of size
\* operations that begins with operation start
costRows(p, start) ==
    IF start >= Len(p.OpTypes) THEN <<>>
    ELSE <<costRow(p, start, start + 1)>> \o costRows(p, start + 1)

\* the summed estimate of a partition
partitionCost(costs, part) ==
    sumSeq([ i \in 1 .. Len(part) |-> costs[part[i][1] + 1][part[i][2] - part[i][1]] ])

\* C3: the summed latency of the partition chosen by chooseGroupsByDP(p, 4) is
\* the least summed estimate over all partitions into contiguous groups of 1
\* to 4 operations; so it is at most that of one operation per group.
C3_DPTotalIsMinimum ==
    pc = "built" =>
        LET n == Len(problem.OpTypes)
            costs == costRows(problem, 0)
            total == sumSeq(solution.SubgraphLatencies)
        IN  /\ \A part \in contiguousPartitions(0, n) : total <= partitionCost(costs, part)
            /\ \E part \in contiguousPartitions(0, n) : total = partitionCost(costs, part)
            /\ total <= partitionCost(costs, [ i \in 1 .. n |-> <<i - 1, i>> ])

\* a plan that is strictly cheaper than one operation per group and strictly
\* cheaper than the largest groups taken greedily from the left
C3_Witness ==
    /\ pc = "built"
    /\ Len(problem.OpTypes) > MaxGroupSize
    /\ LET n == Len(problem.OpTypes)
           costs == costRows(problem, 0)
           total == sumSeq(solution.SubgraphLatencies)
       IN  /\ total < partitionCost(costs, [ i \in 1 .. n |-> <<i - 1, i>> ])
           /\ total < partitionCost(costs, << <<0, MaxGroupSize>>, <<MaxGroupSize, n>> >>)
           /\ Len(solution.Subgraphs) >= 2

\* the tensors some operation of a group writes, and those some operation reads
groupOutputs(p, ops) == UNION { Elems(At(p.Outputs, op)) : op \in Elems(ops) }
groupInputs(p, ops) == UNION { Elems(At(p.Inputs, op)) : op \in Elems(ops) }

RECURSIVE isPowerOfTwo(_)
isPowerOfTwo(x) == x >= 1 /\ (x = 1 \/ (x % 2 = 0 /\ isPowerOfTwo(x \div 2)))

\* C7: every granularity (w,h,k) of the built plan has w, h, k >= 1, w and h
\* powers of two, w <= native_granularity[0] and h <= native_granularity[1].
C7_GranularityWithinNative ==
    pc = "built" =>
        \A i \in 1 .. Len(solution.Granularities) :
            LET g == solution.Granularities[i]
            IN  /\ g[1] >= 1 /\ g[2] >= 1 /\ g[3] >= 1
                /\ isPowerOfTwo(g[1]) /\ isPowerOfTwo(g[2])
                /\ g[1] <= problem.NativeGranularity[1]
                /\ g[2] <= problem.NativeGranularity[2]

\* a plan with a group whose tile is as wide as native_granularity allows
\* although the first output of one of its operations is wider, and a group
\* with a reduction split above 1
C7_Witness ==
    /\ pc = "built"
    /\ \E i \in 1 .. Len(solution.Subgraphs) :
           /\ solution.Granularities[i][1] = problem.NativeGranularity[1]
           /\ \E op \in Elems(solution.Subgraphs[i]) :
                  At(problem.Widths, At(At(problem.Outputs, op), 0))
                      > problem.NativeGranularity[1]
    /\ \E i \in 1 .. Len(solution.Subgraphs) : solution.Granularities[i][3] > 1

----------------------------------------------------------------------------
(* Claim about the entry points                                            *)

\* C4: the output file is written only after validateProblem has accepted the
\* problem and validateSolution has accepted the plan that is written.  Holds
\* of main in src/unnamed/part_000 (Spec); main in src/cmd/mlsys/main.go
\* (SpecStarter) never calls validateSolution.
C4_WrittenPlanIsValidated ==
    outFile # <<>> =>
        /\ validateProblem(problem) = "ok"
        /\ validateSolution(problem, outFile[1]) = "ok"

----------------------------------------------------------------------------
(* Claims about validateSolution, chooseGranularityForGroup and the        *)
(* working-set counts, each applied on its own                             *)

\* how often operation op is listed in the groups of a plan
occurrences(s, op) ==
    LET flat == concatAll(s.Subgraphs)
    IN  Cardinality({ j \in 1 .. Len(flat) : flat[j] = op })

\* the conditions C5 lists
planConditions(p, s) ==
    LET n == Len(s.Subgraphs)
    IN  /\ n >= 1
        /\ Len(s.Granularities) = n /\ Len(s.TensorsToRetain) = n
        /\ Len(s.TraversalOrders) = n /\ Len(s.SubgraphLatencies) = n
        /\ \A i \in 1 .. n : Len(s.Subgraphs[i]) >= 1
        /\ \A i \in 1 .. n : \A c \in 1 .. 3 : s.Granularities[i][c] > 0
        /\ \A i \in 1 .. n : s.SubgraphLatencies[i] >= 0
        /\ \A i \in 1 .. n : \A op \in Elems(s.Subgraphs[i]) : op \in Indices(Len(p.OpTypes))
        /\ \A op \in Indices(Len(p.OpTypes)) : occurrences(s, op) = 1
        /\ \A i \in 1 .. n : fitsAssigned(p, s, i)
        /\ \A i \in 1 .. n : \A t \in Elems(s.TensorsToRetain[i]) : t \in Indices(Len(p.Widths))

\* C5: validateSolution returns ok exactly when the plan has a group, the five
\* lists are equally long, every group is non-empty, every granularity
\* component is positive, every latency is non-negative, every listed
\* operation exists, every operation is listed exactly once over all groups,
\* every group fits fast memory, and every retained tensor exists.
C5_ValidateSolutionExact ==
    ret # <<>> => ((ret[1] = "ok") <=> planConditions(problem, solution))

\* an accepted plan of two groups
C5_Witness ==
    /\ ret = <<"ok">>
    /\ Len(solution.Subgraphs) = 2

\* the reduction split C8 states: the largest min(width of the first input, 16)
\* over the matmul operations with an input, 1 when none has a first input of
\* positive width
statedReductionSplit(p, ops) ==
    LET widths == { At(p.Widths, At(At(p.Inputs, op), 0)) :
                      op \in { o \in Elems(ops) :
                                 isMatMul(At(p.OpTypes, o)) /\ Len(At(p.Inputs, o)) > 0 } }
        capped == { minI64(x, ReductionCap) : x \in widths }
    IN  IF \A x \in widths : x <= 0 THEN 1
        ELSE CHOOSE x \in capped : \A y \in capped : y <= x

\* the candidate (width, height) pairs: the powers of two within the caps
candidateSet(p, ops) ==
    LET caps == granularityCaps(p, ops)
    IN  { <<w, h>> \in (1 .. caps[1]) \X (1 .. caps[2]) : isPowerOfTwo(w) /\ isPowerOfTwo(h) }

\* the candidates that pass the memory-fit predicate with the group's split
passingCandidates(p, ops) ==
    { c \in candidateSet(p, ops) :
        fitsFastMemoryGroup(p, ops, c[1], c[2], statedReductionSplit(p, ops)) }

\* C8: when some candidate passes the memory-fit predicate, the reduction split
\* of the granularity chooseGranularityForGroup returns is the stated one.
C8_ReductionSplitReturned ==
    (ret # <<>> /\ passingCandidates(problem, args) # {}) =>
        ret[1][3] = statedReductionSplit(problem, args)

\* C10: when some candidate passes the memory-fit predicate, the (width,
\* height) chooseGranularityForGroup returns passes it, no passing candidate
\* has a larger area, and no passing candidate of the same area is wider.
C10_LargestPassingTile ==
    (ret # <<>> /\ passingCandidates(problem, args) # {}) =>
        LET passing == passingCandidates(problem, args)
            g == ret[1]
        IN  /\ <<g[1], g[2]>> \in passing
            /\ \A c \in passing : c[1] * c[2] <= g[1] * g[2]
            /\ \A c \in passing : c[1] * c[2] = g[1] * g[2] => c[1] <= g[1]

\* a group of several operations for which two passing candidates share the
\* largest area, which exceeds 1, and some candidate does not pass
C10_Witness ==
    /\ ret # <<>>
    /\ Len(args) >= 2
    /\ LET passing == passingCandidates(problem, args)
           g == ret[1]
       IN  /\ g[1] * g[2] > 1
           /\ passing # candidateSet(problem, args)
           /\ \E c \in passing : c[1] * c[2] = g[1] * g[2] /\ c[1] < g[1]

\* C9: for one operation the single-operation count equals the group count of
\* the group holding only that operation, so the two memory-fit tests agree.
C9_SingletonCountsAgree ==
    ret # <<>> =>
        /\ ret[1].forOp = ret[1].forGroup
        /\ ret[1].fitsOp = ret[1].fitsGroup

----------------------------------------------------------------------------
(* Claims about the partitioner and memory feasibility                      *)

\* a partition every group of which passes fitsFastMemoryGroup at (1,1,1)
feasiblePartition(p, part) ==
    \A i \in 1 .. Len(part) :
        fitsFastMemoryGroup(p, makeContiguousOps(part[i][1], part[i][2]), 1, 1, 1)

\* some partition into contiguous groups of 1 to 4 operations is feasible
feasiblePlanExists(p) ==
    \E part \in contiguousPartitions(0, Len(p.OpTypes)) : feasiblePartition(p, part)

\* C11: for an accepted problem, if some partition into contiguous groups of
\* 1 to 4 operations has every group passing fitsFastMemoryGroup at (1,1,1),
\* then every group of the built plan passes fitsFastMemoryGroup at its
\* assigned granularity.
C11_FeasiblePlanIsChosen ==
    (pc = "built" /\ feasiblePlanExists(problem)) =>
        \A i \in 1 .. Len(solution.Subgraphs) : fitsAssigned(problem, solution, i)

\* C12: planning an accepted problem never reads past the end of a list: no
\* run on a problem validateProblem accepts ends in the panic of an
\* out-of-range read (p.Outputs[op][0] of an operation without outputs).
C12_AcceptedProblemPlansInRange ==
    pc = "panic" => validateProblem(problem) # "ok"

=============================================================================
